---- MODULE Spec2Model ----
(***************************************************************************)
(* Model of nwb_project_analytics: the time alignment of per-repository    *)
(* CLOC snapshots (GitCodeStats.compute_summary_stats), the per-language   *)
(* tables (compute_language_stats), the start-date clean-up from_nwb       *)
(* applies to both, the loading of cached results (from_cache) and the     *)
(* collection of the snapshots of a repository (git_repo_stats), the        *)
(* merging of the contributor lists (merge_contributors), from_nwb's use   *)
(* of the cache directory, the releases a GitHubRepoInfo object fetches    *)
(* and the paging and the coverage timeline of CodecovInfo.                *)
(*                                                                         *)
(* Dates are day numbers: every 'date' of cloc_stats is a "%d %b %Y"       *)
(* string (codestats.py:520) that pandas.DatetimeIndex parses to midnight  *)
(* of that day, and date_range holds midnights as well.                    *)
(***************************************************************************)
EXTENDS Integers, Sequences, FiniteSets, TLC

\* ------------------------------------------------------------------ bounds
\* Days are 1..MaxDay.
MaxDay == 4
\* Total number of snapshots held by cloc_stats, all repositories together.
MaxSnaps == 3
\* Largest step (in days) of a date_range.
MaxStep == 2
\* Largest number of commits of a repository's history.
MaxCommits == 3
\* Number of distinct commit times (committed_date) within one UTC day.
TicksPerDay == 2
\* Largest number of requests a GitHubRepoInfo object sends.
MaxRequests == 3
\* Largest page_max a caller of get_pulls_or_commits gives.
MaxPageMax == 2
\* Largest number of items given to get_time_and_coverage.
MaxItems == 3
\* Largest number of rows of the frames given to merge_contributors, all
\* repositories together.
MaxRows == 4
\* Largest number of commits of a contributor to one repository.
MaxCount == 2

\* ------------------------------------------------------- values and helpers
\* Python's None, for the fields of the object that hold a dict or None.
None == << >>

\* page_max = None of get_pulls_or_commits ("unlimited", codecovstats.py:19-20);
\* real values of page_max are >= 0.
NoPageMax == -1

\* page_max = 100 (codecovstats.py:33)
HardPageMax == 100

\* GitRepo.startdate = None (gitstats.py:135); real start dates are days >= 1.
NoDate == 0

\* The keys of git_paths / cloc_stats, in the dict's iteration order.
RepoOrder == << "A", "B" >>

Repos == { RepoOrder[i] : i \in 1..Len(RepoOrder) }

\* The five categories of the summary statistics.
Categories == { "sizes", "blanks", "codes", "comments", "nfiles" }

\* A cloc report of a tree that holds Python only: the report's header, one
\* entry per language and their 'SUM'.
PythonOnly ==
    [header |-> [n_files |-> 3, n_lines |-> 13],
     Python |-> [blank |-> 1, code |-> 10, comment |-> 2, nFiles |-> 3],
     SUM    |-> [blank |-> 1, code |-> 10, comment |-> 2, nFiles |-> 3]]

\* A cloc report of a tree that holds Python and C.
PythonAndC ==
    [header |-> [n_files |-> 4, n_lines |-> 27],
     Python |-> [blank |-> 1, code |-> 12, comment |-> 3, nFiles |-> 3],
     C      |-> [blank |-> 1, code |-> 8, comment |-> 2, nFiles |-> 1],
     SUM    |-> [blank |-> 2, code |-> 20, comment |-> 5, nFiles |-> 4]]

\* The cloc reports the snapshots of the model carry.
Clocs == { PythonOnly, PythonAndC }

\* The cloc 'SUM' entries the snapshots of the model carry.
SumRecs == { c.SUM : c \in Clocs }

\* ignore_lang = ['SUM', 'header'] of from_nwb (line 143).
IgnoreLang == { "SUM", "header" }

\* s[::-1]
Reverse(s) == [i \in 1..Len(s) |-> s[Len(s) + 1 - i]]

Min(S) == CHOOSE x \in S : \A y \in S : x <= y

RECURSIVE SumOver(_, _)
\* np.sum of the entries of record rec at the keys K
SumOver(rec, K) ==
    IF K = {} THEN 0
    ELSE LET key == CHOOSE x \in K : TRUE
         IN  rec[key] + SumOver(rec, K \ {key})

\* np.sum([v for k, v in cloc_entry['cloc']['SUM'].items() if k != 'nFiles'])
SizeOf(cloc_entry) ==
    SumOver(cloc_entry.cloc.SUM, DOMAIN cloc_entry.cloc.SUM \ {"nFiles"})

\* ------------------------------------------------------------------ inputs
\* The ascending lists of at most n snapshot dates.
RECURSIVE AscDates(_, _)
AscDates(from, n) ==
    {<< >>} \cup
    (IF n = 0 THEN {}
     ELSE UNION { { <<d>> \o rest : rest \in AscDates(d + 1, n - 1) } :
                  d \in from..MaxDay })

\* The snapshot lists git_repo_stats can return with at most n entries: one
\* entry per day, newest first.
SnapshotListsOf(n, reports) ==
    UNION { { [i \in 1..Len(ds) |->
                 [date |-> ds[Len(ds) + 1 - i], cloc |-> clocs[i]]] :
              clocs \in [1..Len(ds) -> reports] } :
            ds \in AscDates(1, n) }

SnapshotLists(n) == SnapshotListsOf(n, Clocs)

RECURSIVE TotalLen(_, _)
TotalLen(stats, K) ==
    IF K = {} THEN 0
    ELSE LET key == CHOOSE x \in K : TRUE
         IN  Len(stats[key]) + TotalLen(stats, K \ {key})

\* The values of cloc_stats: a snapshot list per repository.
ClocStats ==
    { stats \in [Repos -> SnapshotLists(MaxSnaps)] :
        TotalLen(stats, Repos) <= MaxSnaps }

\* pandas.date_range(start, end, freq): the non-empty regular ranges of days.
DateRanges ==
    { [i \in 1..n |-> start + (i - 1) * step] :
        start \in 1..MaxDay, step \in 1..MaxStep, n \in 1..MaxDay }

LastOf(s) == s[Len(s)]

ValidDateRanges == { dr \in DateRanges : LastOf(dr) <= MaxDay }

\* freq="D"
Daily(dr) == \A i \in 1..(Len(dr) - 1) : dr[i + 1] = dr[i] + 1

\* ------------------------------------------------------------------- state
VARIABLES
    cloc_stats,     \* self.cloc_stats: None, or repository -> snapshots (newest first)
    commit_stats,   \* self.commit_stats: None, or repository -> commit list
    date_range,     \* the date_range argument of compute_summary_stats
    pc,             \* where the program is
    error,          \* the exception that ended the call, "" when none
    repo_pos,       \* number of repositories the loop of line 301 has finished
    curr,           \* curr_dates, curr_sizes, ..., curr_nfiles of the current repository
    curr_index,     \* curr_index (0-based, as in the code)
    curr_val,       \* curr_val_sizes, ..., curr_val_nfiles
    expanded,       \* expanded_sizes, ..., expanded_nfiles
    loop_pos,       \* number of dates the loop of line 341 has finished
    aligned,        \* repo_sizes_aligned, ..., repo_nfiles_aligned
    summary_stats,  \* the dict of tables compute_summary_stats returned
    startdate,      \* all_nwb_repos[repo_key].startdate of the repositories cleaned up
    trunc_pos,      \* number of repositories the loop of line 148 has finished
    error_args,     \* the args of the exception that ended the call
    per_repo_lang_stats, \* the dict of tables compute_language_stats returned
    commits,        \* git_repo_stats: re_commit_stats, the commits repo.iter_commits() yielded
    re_cloc_stats,  \* git_repo_stats: re_cloc_stats
    commit_pos,     \* git_repo_stats: number of commits the loop of line 519 has finished
    git_pc,         \* git_repo_stats: where the call is
    prev_stats,     \* the caller: the tables an earlier call of compute_summary_stats returned
    releases,       \* GitHubRepoInfo: self.__releases
    responses,      \* GitHubRepoInfo: the responses to the requests get_releases has issued
    last_call,      \* GitHubRepoInfo: the last call, its arguments and its outcome
    page_max_arg,   \* get_pulls_or_commits: the page_max the caller gave
    page_max,       \* get_pulls_or_commits: page_max
    page_index,     \* get_pulls_or_commits: page_index
    results,        \* get_pulls_or_commits: results
    page_log,       \* get_pulls_or_commits: the responses to the requests sent, in order
    page_pc,        \* get_pulls_or_commits: where the call is
    pulls_or_commits, \* get_time_and_coverage: the argument pulls_or_commits
    coverage_result, \* get_time_and_coverage: what it returned
    data_frames,    \* merge_contributors: the argument data_frames
    merge_duplicates, \* merge_contributors: the argument merge_duplicates
    contributors,   \* merge_contributors: what it returned
    cache_files,    \* from_nwb: what exists at cache_dir (None: no such directory)
    cache_before,   \* from_nwb: what existed at cache_dir when it was called
    read_cache,     \* from_nwb: the argument read_cache
    write_cache,    \* from_nwb: the argument write_cache
    clean_source_dir, \* from_nwb: the argument clean_source_dir
    nwb_log,        \* from_nwb: what it has done to its surroundings, in order
    nwb_pc          \* from_nwb: where the call is

vars == << cloc_stats, commit_stats, date_range, pc, error, repo_pos, curr,
           curr_index, curr_val, expanded, loop_pos, aligned, summary_stats,
           startdate, trunc_pos, error_args, per_repo_lang_stats, commits,
           re_cloc_stats, commit_pos, git_pc, prev_stats,
           releases, responses, last_call, page_max_arg, page_max, page_index,
           results, page_log, page_pc, pulls_or_commits, coverage_result,
           data_frames, merge_duplicates, contributors, cache_files,
           cache_before, read_cache, write_cache, clean_source_dir, nwb_log,
           nwb_pc >>

\* The variables of a call of git_repo_stats.
gitvars == << commits, re_cloc_stats, commit_pos, git_pc >>

\* The variables outside GitCodeStats and git_repo_stats.
extvars == << prev_stats, releases, responses, last_call, page_max_arg,
             page_max, page_index, results, page_log, page_pc, pulls_or_commits,
             coverage_result, data_frames, merge_duplicates, contributors,
             cache_files, cache_before, read_cache, write_cache,
             clean_source_dir, nwb_log, nwb_pc >>

\* The variables of GitCodeStats and of the code that uses its results.
statvars == << cloc_stats, commit_stats, date_range, pc, error, repo_pos, curr,
               curr_index, curr_val, expanded, loop_pos, aligned, summary_stats,
               startdate, trunc_pos, error_args, per_repo_lang_stats, prev_stats >>

\* The variables of a GitHubRepoInfo object.
relvars == << releases, responses, last_call >>

\* The variables of a call of CodecovInfo.get_pulls_or_commits.
pagevars == << page_max_arg, page_max, page_index, results, page_log, page_pc >>

\* The variables of a call of CodecovInfo.get_time_and_coverage.
covvars == << pulls_or_commits, coverage_result >>

\* The variables of a call of merge_contributors.
contribvars == << data_frames, merge_duplicates, contributors >>

\* The variables of the cache directory and of from_nwb's use of it.
cachevars == << cache_files, cache_before, read_cache, write_cache,
               clean_source_dir, nwb_log, nwb_pc >>

\* A dict with no key.
EmptyDict == [r \in {} |-> << >>]

\* Five empty lists / five empty dicts / five zeros, one per category.
NoLists == [c \in Categories |-> << >>]

NoDicts == [c \in Categories |-> EmptyDict]

Zeros == [c \in Categories |-> 0]

NoCurr == [dates |-> << >>, sizes |-> << >>, blanks |-> << >>, codes |-> << >>,
           comments |-> << >>, nfiles |-> << >>]

\* GitCodeStats.__init__
Init ==
    /\ cloc_stats = None
    /\ commit_stats = None
    /\ date_range = << >>
    /\ pc = "constructed"
    /\ error = ""
    /\ repo_pos = 0
    /\ curr = NoCurr
    /\ curr_index = 0
    /\ curr_val = Zeros
    /\ expanded = NoLists
    /\ loop_pos = 0
    /\ aligned = NoDicts
    /\ summary_stats = None
    /\ startdate = EmptyDict
    /\ trunc_pos = 0
    /\ error_args = << >>
    /\ per_repo_lang_stats = None
    /\ commits = << >>
    /\ re_cloc_stats = << >>
    /\ commit_pos = 0
    /\ git_pc = "idle"
    /\ prev_stats = None
    /\ releases = None
    /\ responses = << >>
    /\ last_call = None
    /\ page_max_arg = NoPageMax
    /\ page_max = NoPageMax
    /\ page_index = 1
    /\ results = << >>
    /\ page_log = << >>
    /\ page_pc = "idle"
    /\ pulls_or_commits = << >>
    /\ coverage_result = None
    /\ data_frames = [r \in Repos |-> << >>]
    /\ merge_duplicates = TRUE
    /\ contributors = None
    /\ cache_files = None
    /\ cache_before = None
    /\ read_cache = TRUE
    /\ write_cache = TRUE
    /\ clean_source_dir = TRUE
    /\ nwb_log = << >>
    /\ nwb_pc = "idle"

\* compute_code_stats: commit_stats and cloc_stats are set, one entry per key
\* of git_paths.
compute_code_stats ==
    /\ pc = "constructed"
    /\ \E stats \in ClocStats :
         /\ cloc_stats' = stats
         /\ commit_stats' = [r \in Repos |-> << >>]
    /\ pc' = "ready"
    /\ UNCHANGED << date_range, error, repo_pos, curr, curr_index, curr_val,
                    expanded, loop_pos, aligned, summary_stats, startdate,
                    trunc_pos, error_args, per_repo_lang_stats, gitvars, extvars >>

\* NotInitialized with a defect: only cloc_stats is looked at (used to test
\* that C13 depends on NotInitialized).
NotInitializedClocOnly(commits_, clocs_) == clocs_ = None

\* Line 290: self.commit_stats is None or self.cloc_stats is None
NotInitialized(commits_, clocs_) == commits_ = None \/ clocs_ = None

\* The args of the AssertionError of line 291.
NotInitializedMessage ==
    << "commit_stats and cloc_stats have not been initalized. Call compute_code_stats first." >>

\* compute_summary_stats, lines 290-298: the check of the object and the five
\* empty result dicts.
compute_summary_stats ==
    /\ pc \in {"constructed", "ready"}
    /\ \E dr \in ValidDateRanges : date_range' = dr
    /\ IF NotInitialized(commit_stats, cloc_stats)
         THEN /\ pc' = "raised"
              /\ error' = "AssertionError"
              /\ error_args' = NotInitializedMessage
         ELSE /\ pc' = "for_repo"
              /\ error' = error
              /\ error_args' = error_args
    /\ aligned' = NoDicts
    /\ repo_pos' = 0
    /\ UNCHANGED << cloc_stats, commit_stats, curr, curr_index, curr_val,
                    expanded, loop_pos, summary_stats, startdate, trunc_pos,
                    per_repo_lang_stats, gitvars, extvars >>

\* SumKeys with a defect: the lists are built in another order (used to test
\* that C14 depends on the order of the accesses).
SumKeysReordered == << "nFiles", "comment", "code", "blank" >>

\* The keys lines 304-309 read from cloc_entry['cloc']['SUM'], in the order
\* of the lines.
SumKeys == << "blank", "code", "comment", "nFiles" >>

\* The snapshots of v that have no 'SUM' report.
NoSum(v) == { i \in 1..Len(v) : "SUM" \notin DOMAIN v[i].cloc }

\* The keys of keys (a list) that the 'SUM' report of some snapshot of v lacks.
Lacking(v, keys) ==
    { j \in 1..Len(keys) : \E i \in 1..Len(v) : keys[j] \notin DOMAIN v[i].cloc.SUM }

\* Lines 304-309: the key of the KeyError the six list comprehensions raise on
\* snapshot list v, "" when they raise none. Line 304 reads ['SUM'] of every
\* snapshot (and sums whatever entries it has); lines 306-309 then read
\* 'blank', 'code', 'comment' and 'nFiles' of every snapshot, one list after
\* the other.
MissingKey(v, keys) ==
    IF NoSum(v) # {} THEN "SUM"
    ELSE IF Lacking(v, keys) # {} THEN keys[Min(Lacking(v, keys))]
    ELSE ""

\* Lines 303-309: the dates and the five value lists of snapshot list v, each
\* reversed to oldest first.
CurrLists(v) ==
    [dates    |-> Reverse([i \in 1..Len(v) |-> v[i].date]),
     sizes    |-> Reverse([i \in 1..Len(v) |-> SizeOf(v[i])]),
     blanks   |-> Reverse([i \in 1..Len(v) |-> v[i].cloc.SUM.blank]),
     codes    |-> Reverse([i \in 1..Len(v) |-> v[i].cloc.SUM.code]),
     comments |-> Reverse([i \in 1..Len(v) |-> v[i].cloc.SUM.comment]),
     nfiles   |-> Reverse([i \in 1..Len(v) |-> v[i].cloc.SUM.nFiles])]

\* The five values of the snapshot at (0-based) index i of the lists c.
ValuesAt(c, i) == [cat \in Categories |-> c[cat][i + 1]]

\* Lines 327-333, reached when date_range[0] > curr_dates[0]: the start index
\* for first date d0. The for loop leaves curr_index at its initial 0 when no
\* date of curr_dates is later than d0.
StartIndex(curr_dates, d0) ==
    IF d0 > curr_dates[Len(curr_dates)]
      THEN Len(curr_dates) - 1
      ELSE LET later == { i \in 0..(Len(curr_dates) - 1) : curr_dates[i + 1] > d0 }
           IN  IF later = {} THEN 0 ELSE Min(later) - 1

\* StartValues with a defect: the carried values start at the first snapshot
\* (used to test that C8 depends on StartValues).
StartValuesFirstSnapshot(c) == ValuesAt(c, 0)

\* Lines 313-317: curr_val_sizes = ... = curr_val_nfiles = 0 before the search
\* for the start values.
StartValues(c) == Zeros

\* ClocStatsAfterLists with a defect: the snapshot list is reversed in place,
\* as v.reverse() would (used to test that C21 depends on the lists being
\* copies).
ClocStatsReversedInPlace(stats, k) == [stats EXCEPT ![k] = Reverse(@)]

\* Lines 303-309: cloc_stats after the lists of repository k are built. Each
\* list is a new list made by a comprehension, and [::-1] reverses a copy of
\* it; the snapshot list v itself is not changed.
ClocStatsAfterLists(stats, k) == stats

\* Lines 301-338: the next repository of cloc_stats; its lists, the cursor and
\* the carried values before the first date. curr_dates[0] of line 326 raises
\* IndexError when the repository has no snapshot.
summary_repo_begin ==
    /\ pc = "for_repo"
    /\ repo_pos < Len(RepoOrder)
    /\ LET v == cloc_stats[RepoOrder[repo_pos + 1]]
           c == CurrLists(v)
       IN  IF MissingKey(v, SumKeys) # ""
             THEN /\ pc' = "raised"
                  /\ error' = "KeyError"
                  /\ error_args' = << MissingKey(v, SumKeys) >>
                  /\ UNCHANGED << curr, expanded, loop_pos, curr_index, curr_val >>
             ELSE
               /\ curr' = c
               /\ expanded' = NoLists
               /\ loop_pos' = 0
               /\ IF Len(v) = 0
                    THEN /\ pc' = "raised"
                         /\ error' = "IndexError"
                         /\ error_args' = << "index 0 is out of bounds for axis 0 with size 0" >>
                         /\ curr_index' = 0
                         /\ curr_val' = Zeros
                    ELSE /\ pc' = "for_date"
                         /\ error' = error
                         /\ error_args' = error_args
                         /\ IF date_range[1] > c.dates[1]
                              THEN /\ curr_index' = StartIndex(c.dates, date_range[1])
                                   /\ curr_val' = ValuesAt(c, curr_index')
                              ELSE /\ curr_index' = 0
                                   /\ curr_val' = StartValues(c)
    /\ cloc_stats' = ClocStatsAfterLists(cloc_stats, RepoOrder[repo_pos + 1])
    /\ UNCHANGED << commit_stats, date_range, repo_pos, aligned,
                    summary_stats, startdate, trunc_pos, per_repo_lang_stats,
                    gitvars, extvars >>

\* Matches with a defect: a date at or after the cursor's snapshot matches
\* (used to test that C10 depends on Matches).
MatchesOrLater(d, curr_dates, index) == d >= curr_dates[index + 1]

\* Line 345: the date d is the date of the snapshot under the cursor.
Matches(d, curr_dates, index) == d = curr_dates[index + 1]

\* Lines 341-358: one date of date_range.
summary_date_step ==
    /\ pc = "for_date"
    /\ loop_pos < Len(date_range)
    /\ LET d == date_range[loop_pos + 1]
       IN  /\ IF Matches(d, curr.dates, curr_index)
                THEN /\ curr_val' = ValuesAt(curr, curr_index)
                     /\ curr_index' = IF curr_index < Len(curr.dates) - 1
                                        THEN curr_index + 1
                                        ELSE curr_index
                ELSE UNCHANGED << curr_val, curr_index >>
           /\ expanded' = [cat \in Categories |-> Append(expanded[cat], curr_val'[cat])]
    /\ loop_pos' = loop_pos + 1
    /\ UNCHANGED << cloc_stats, commit_stats, date_range, pc, error, repo_pos,
                    curr, aligned, summary_stats, startdate, trunc_pos,
                    error_args, per_repo_lang_stats, gitvars, extvars >>

\* Lines 360-364: the expanded lists become the columns of repository k.
summary_repo_save ==
    /\ pc = "for_date"
    /\ loop_pos = Len(date_range)
    /\ LET k == RepoOrder[repo_pos + 1]
       IN  aligned' = [cat \in Categories |-> (k :> expanded[cat]) @@ aligned[cat]]
    /\ repo_pos' = repo_pos + 1
    /\ pc' = "for_repo"
    /\ UNCHANGED << cloc_stats, commit_stats, date_range, error, curr, curr_index,
                    curr_val, expanded, loop_pos, summary_stats, startdate,
                    trunc_pos, error_args, per_repo_lang_stats, gitvars, extvars >>

\* SummaryTables with a defect: the 'nfiles' table is left out (used to test
\* that C12 depends on SummaryTables).
SummaryTablesWithoutNfiles(al) ==
    [sizes    |-> al.sizes,
     blanks   |-> al.blanks,
     codes    |-> al.codes,
     comments |-> al.comments]

\* Lines 366-382: the five tables, each with index date_range. The 'nfiles'
\* table is built from repo_codes_aligned (line 375).
SummaryTables(al) ==
    [sizes    |-> al.sizes,
     blanks   |-> al.blanks,
     codes    |-> al.codes,
     comments |-> al.comments,
     nfiles   |-> al.codes]

summary_return ==
    /\ pc = "for_repo"
    /\ repo_pos = Len(RepoOrder)
    /\ summary_stats' = SummaryTables(aligned)
    /\ pc' = "returned"
    /\ UNCHANGED << cloc_stats, commit_stats, date_range, error, repo_pos, curr,
                    curr_index, curr_val, expanded, loop_pos, aligned, startdate,
                    trunc_pos, error_args, per_repo_lang_stats, gitvars, extvars >>

\* Lines 403-405: np.unique of the keys of the cloc reports of a repository
\* that are not in ignore_lang.
LanguagesUsed(cloc_values, ignore_lang) ==
    UNION { DOMAIN cloc_values[i].cloc : i \in 1..Len(cloc_values) } \ ignore_lang

\* AvailableDates with a defect: the dates are reversed to oldest first, the
\* values are not (used to test that C17 depends on AvailableDates).
AvailableDatesReversed(cloc_values) ==
    Reverse([i \in 1..Len(cloc_values) |-> cloc_values[i].date])

\* Lines 407-408: the dates of the snapshots, in the order of cloc_values.
AvailableDates(cloc_values) == [i \in 1..Len(cloc_values) |-> cloc_values[i].date]

\* LangCount with a defect: a language the report lacks counts as the whole
\* report does (used to test that C18 depends on LangCount).
LangCountOrSum(cloc_entry, lang) ==
    LET val == IF lang \in DOMAIN cloc_entry.cloc
                 THEN cloc_entry.cloc[lang]
                 ELSE cloc_entry.cloc.SUM
    IN  val.blank + val.code + val.comment

\* Lines 412-415: blank + code + comment of language lang in a snapshot, 0
\* for a language the snapshot's report does not hold.
LangCount(cloc_entry, lang) ==
    LET val == IF lang \in DOMAIN cloc_entry.cloc
                 THEN cloc_entry.cloc[lang]
                 ELSE [blank |-> 0, code |-> 0, comment |-> 0]
    IN  val.blank + val.code + val.comment

\* Lines 409-417: the DataFrame of a repository; its index and, per language,
\* its column.
LanguageTable(cloc_values, ignore_lang) ==
    [index |-> AvailableDates(cloc_values),
     data  |-> [lang \in LanguagesUsed(cloc_values, ignore_lang) |->
                  [i \in 1..Len(cloc_values) |-> LangCount(cloc_values[i], lang)]]]

\* Lines 399-419, as from_nwb calls it (line 145) after compute_summary_stats.
compute_language_stats ==
    /\ pc = "returned"
    /\ per_repo_lang_stats = None
    /\ per_repo_lang_stats' =
         [codename \in DOMAIN cloc_stats |->
            LanguageTable(cloc_stats[codename], IgnoreLang)]
    /\ UNCHANGED << cloc_stats, commit_stats, date_range, pc, error, repo_pos,
                    curr, curr_index, curr_val, expanded, loop_pos, aligned,
                    summary_stats, startdate, trunc_pos, error_args, gitvars, extvars >>

\* ZeroUpTo with a defect: the values kept are taken one row too early (used
\* to test that C16 depends on ZeroUpTo).
ZeroUpToShifted(column, index, repo_startdate) ==
    [i \in 1..Len(column) |->
       IF index[i] <= repo_startdate \/ i = 1 THEN 0 ELSE column[i - 1]]

\* Line 158, summary_stats[k][repo_key][:repo_startdate] = 0 on a column whose
\* index is date_range: a slice of a DatetimeIndex by a date is a slice by
\* label, which includes its end point, so the rows dated <= repo_startdate
\* are set.
ZeroUpTo(column, index, repo_startdate) ==
    [i \in 1..Len(column) |-> IF index[i] <= repo_startdate THEN 0 ELSE column[i]]

\* DateMask with a defect: the start date itself is masked too (used to test
\* that C15 depends on DateMask).
DateMaskInclusive(index, repo_startdate) ==
    [i \in 1..Len(index) |-> index[i] <= repo_startdate]

\* Line 160: datemask = (per_repo_lang_stats[repo_key].index < repo_startdate)
DateMask(index, repo_startdate) ==
    [i \in 1..Len(index) |-> index[i] < repo_startdate]

\* Line 161: per_repo_lang_stats[repo_key].loc[datemask] = 0, the masked rows
\* are set to 0 in every column.
ZeroRows(table, datemask) ==
    [table EXCEPT !.data =
        [lang \in DOMAIN table.data |->
           [i \in 1..Len(table.index) |->
              IF datemask[i] THEN 0 ELSE table.data[lang][i]]]]

\* ZeroColumn with a defect: the rows are set to 0 in the whole table, as
\* summary_stats[k][:repo_startdate] = 0 would (used to test that C28 depends
\* on ZeroColumn).
ZeroAllColumns(tables, repo_key, index, repo_startdate) ==
    [k \in DOMAIN tables |->
       [r \in DOMAIN tables[k] |-> ZeroUpTo(tables[k][r], index, repo_startdate)]]

\* Lines 157-158: for k in summary_stats.keys(), the column repo_key of table
\* k is set to 0 up to repo_startdate.
ZeroColumn(tables, repo_key, index, repo_startdate) ==
    [k \in DOMAIN tables |->
       [tables[k] EXCEPT ![repo_key] = ZeroUpTo(@, index, repo_startdate)]]

\* Lines 148-161 of from_nwb, one repository of git_paths: the clean-up of the
\* summary and language statistics of a repository that has a start date.
\* from_nwb builds date_range with freq="D" (lines 134-137).
from_nwb_cleanup ==
    /\ pc = "returned"
    /\ per_repo_lang_stats # None
    /\ Daily(date_range)
    /\ trunc_pos < Len(RepoOrder)
    /\ LET repo_key == RepoOrder[trunc_pos + 1]
       IN  \E repo_startdate \in {NoDate} \cup (1..MaxDay) :
             /\ startdate' = (repo_key :> repo_startdate) @@ startdate
             /\ IF repo_startdate # NoDate
                  THEN /\ summary_stats' =
                            ZeroColumn(summary_stats, repo_key, date_range, repo_startdate)
                       /\ per_repo_lang_stats' =
                            [per_repo_lang_stats EXCEPT
                               ![repo_key] = ZeroRows(@, DateMask(@.index, repo_startdate))]
                  ELSE UNCHANGED << summary_stats, per_repo_lang_stats >>
    /\ trunc_pos' = trunc_pos + 1
    /\ UNCHANGED << cloc_stats, commit_stats, date_range, pc, error, repo_pos,
                    curr, curr_index, curr_val, expanded, loop_pos, aligned,
                    error_args, gitvars, extvars >>

Next ==
    \/ compute_code_stats
    \/ compute_summary_stats
    \/ summary_repo_begin
    \/ summary_date_step
    \/ summary_repo_save
    \/ summary_return
    \/ compute_language_stats
    \/ from_nwb_cleanup

Spec == Init /\ [][Next]_vars

\* ------------------------------------------------------------- cached results
\* A cached cloc report without its 'SUM' entry.
ReportWithoutSum ==
    [header |-> [n_files |-> 3, n_lines |-> 13],
     Python |-> [blank |-> 1, code |-> 10, comment |-> 2, nFiles |-> 3]]

\* A cached cloc report whose 'SUM' has neither 'blank' nor 'nFiles'.
ReportWithPartialSum ==
    [header |-> [n_files |-> 3, n_lines |-> 13],
     Python |-> [blank |-> 1, code |-> 10, comment |-> 2, nFiles |-> 3],
     SUM    |-> [code |-> 10, comment |-> 2]]

\* The cloc reports a cache file can hold: from_cache loads the YAML as it is.
CachedClocs == { PythonOnly, ReportWithoutSum, ReportWithPartialSum }

\* What cloc_stats.yaml can load to: None for an empty file (or the cache of
\* an object that never computed its statistics), or a snapshot list per
\* repository.
CachedClocStats ==
    {None} \cup
    { stats \in [Repos -> SnapshotListsOf(MaxSnaps, CachedClocs)] :
        TotalLen(stats, Repos) <= MaxSnaps }

\* What commit_stats.yaml can load to.
CachedCommitStats == { None, [r \in Repos |-> << >>] }

\* from_cache, lines 181-203: the fields are what the YAML loader returns;
\* ValueError when a cache file does not exist.
from_cache ==
    /\ pc = "constructed"
    /\ \E cached \in BOOLEAN :
         IF cached
           THEN /\ \E clocs_ \in CachedClocStats : cloc_stats' = clocs_
                /\ \E commits_ \in CachedCommitStats : commit_stats' = commits_
                /\ pc' = "ready"
                /\ UNCHANGED << error, error_args >>
           ELSE /\ pc' = "raised"
                /\ error' = "ValueError"
                /\ error_args' = << "No cache available at %s" >>
                /\ UNCHANGED << cloc_stats, commit_stats >>
    /\ UNCHANGED << date_range, repo_pos, curr, curr_index, curr_val, expanded,
                    loop_pos, aligned, summary_stats, startdate, trunc_pos,
                    per_repo_lang_stats, gitvars, extvars >>

\* compute_summary_stats on an object made by from_cache (or on a new one).
NextCache ==
    \/ from_cache
    \/ compute_summary_stats
    \/ summary_repo_begin
    \/ summary_date_step
    \/ summary_repo_save
    \/ summary_return

SpecCache == Init /\ [][NextCache]_vars

\* ------------------------------------------------------------ repeated calls
\* The caller sets cells of the tables it was returned to 0, as lines 157-158
\* of from_nwb do for a repository with a start date.
zero_returned_cells ==
    /\ pc = "returned"
    /\ prev_stats = None
    /\ summary_stats = SummaryTables(aligned)
    /\ \E repo_key \in Repos, repo_startdate \in 1..MaxDay :
         summary_stats' = ZeroColumn(summary_stats, repo_key, date_range, repo_startdate)
    /\ UNCHANGED << cloc_stats, commit_stats, date_range, pc, error, repo_pos,
                    curr, curr_index, curr_val, expanded, loop_pos, aligned,
                    startdate, trunc_pos, error_args, per_repo_lang_stats,
                    gitvars, extvars >>

\* compute_summary_stats, lines 290-298, called once more on the same object
\* with the same date_range. prev_stats keeps the tables the earlier call
\* returned and whether the caller has set cells of them to 0; summary_stats
\* is to hold what the new call returns.
compute_summary_stats_again ==
    /\ pc = "returned"
    /\ prev_stats = None
    /\ prev_stats' = [date_range |-> date_range,
                      tables     |-> SummaryTables(aligned),
                      zeroed     |-> summary_stats # SummaryTables(aligned)]
    /\ summary_stats' = None
    /\ IF NotInitialized(commit_stats, cloc_stats)
         THEN /\ pc' = "raised"
              /\ error' = "AssertionError"
              /\ error_args' = NotInitializedMessage
         ELSE /\ pc' = "for_repo"
              /\ error' = error
              /\ error_args' = error_args
    /\ aligned' = NoDicts
    /\ repo_pos' = 0
    /\ UNCHANGED << cloc_stats, commit_stats, date_range, curr, curr_index,
                    curr_val, expanded, loop_pos, startdate, trunc_pos,
                    per_repo_lang_stats, gitvars, relvars, pagevars, covvars,
                    contribvars, cachevars >>

NextRecall ==
    \/ compute_code_stats
    \/ compute_summary_stats
    \/ summary_repo_begin
    \/ summary_date_step
    \/ summary_repo_save
    \/ summary_return
    \/ zero_returned_cells
    \/ compute_summary_stats_again

SpecRecall == Init /\ [][NextRecall]_vars

\* -------------------------------------------------------------- git_repo_stats
\* The commit times of the model: TicksPerDay per day, MaxDay days.
CommitTimes == 0..(MaxDay * TicksPerDay - 1)

\* What run_cloc returns at the checkout of a commit: the parsed report, or
\* None when the report file could not be read (lines 478-483).
ClocResults == { PythonOnly, None }

\* Line 520: time.strftime("%d %b %Y", time.gmtime(committed_date)), the UTC
\* day of the commit.
DateOf(committed_date) == 1 + (committed_date \div TicksPerDay)

\* NewDay with a defect: cloc is run for every commit (used to test that C19
\* depends on NewDay).
NewDayAlways(date, stats) == TRUE

\* Line 522: len(re_cloc_stats) == 0 or date != re_cloc_stats[-1]['date']
NewDay(date, stats) == Len(stats) = 0 \/ date # stats[Len(stats)].date

\* git_repo_stats, lines 508-509: the call; no commit is listed yet.
git_repo_stats ==
    /\ git_pc = "idle"
    /\ commits' = << >>
    /\ re_cloc_stats' = << >>
    /\ commit_pos' = 0
    /\ git_pc' = "list_commits"
    /\ UNCHANGED << cloc_stats, commit_stats, date_range, pc, error, repo_pos,
                    curr, curr_index, curr_val, expanded, loop_pos, aligned,
                    summary_stats, startdate, trunc_pos, error_args,
                    per_repo_lang_stats, extvars >>

\* Lines 510-516: repo.iter_commits() yields one more commit, not newer than
\* the one before it, and the commit is appended to re_commit_stats. hexsha
\* numbers the commits from the newest (1) on; cloc is what run_cloc returns
\* when that commit is checked out.
git_list_commit ==
    /\ git_pc = "list_commits"
    /\ Len(commits) < MaxCommits
    /\ \E t \in CommitTimes, res \in ClocResults :
         /\ IF Len(commits) = 0 THEN TRUE
              ELSE t <= commits[Len(commits)].committed_date
         /\ commits' = Append(commits, [hexsha |-> Len(commits) + 1,
                                        committed_date |-> t, cloc |-> res])
    /\ UNCHANGED << cloc_stats, commit_stats, date_range, pc, error, repo_pos,
                    curr, curr_index, curr_val, expanded, loop_pos, aligned,
                    summary_stats, startdate, trunc_pos, error_args,
                    per_repo_lang_stats, re_cloc_stats, commit_pos, git_pc, extvars >>

\* Lines 517-518: repo.iter_commits() is exhausted.
git_commits_listed ==
    /\ git_pc = "list_commits"
    /\ git_pc' = "for_commit"
    /\ UNCHANGED << cloc_stats, commit_stats, date_range, pc, error, repo_pos,
                    curr, curr_index, curr_val, expanded, loop_pos, aligned,
                    summary_stats, startdate, trunc_pos, error_args,
                    per_repo_lang_stats, commits, re_cloc_stats, commit_pos, extvars >>

\* Lines 519-538: one commit of the loop. cloc is run when the commit's day
\* differs from the day of the last entry of re_cloc_stats, and the entry is
\* appended when run_cloc returned a report.
git_commit_step ==
    /\ git_pc = "for_commit"
    /\ commit_pos < Len(commits)
    /\ LET commit == commits[commit_pos + 1]
           date == DateOf(commit.committed_date)
       IN  IF NewDay(date, re_cloc_stats) /\ commit.cloc # None
             THEN re_cloc_stats' =
                     Append(re_cloc_stats,
                            [hexsha |-> commit.hexsha, date |-> date,
                             time |-> commit.committed_date, cloc |-> commit.cloc])
             ELSE re_cloc_stats' = re_cloc_stats
    /\ commit_pos' = commit_pos + 1
    /\ UNCHANGED << cloc_stats, commit_stats, date_range, pc, error, repo_pos,
                    curr, curr_index, curr_val, expanded, loop_pos, aligned,
                    summary_stats, startdate, trunc_pos, error_args,
                    per_repo_lang_stats, commits, git_pc, extvars >>

\* Line 539: return re_commit_stats, re_cloc_stats
git_return ==
    /\ git_pc = "for_commit"
    /\ commit_pos = Len(commits)
    /\ git_pc' = "returned"
    /\ UNCHANGED << cloc_stats, commit_stats, date_range, pc, error, repo_pos,
                    curr, curr_index, curr_val, expanded, loop_pos, aligned,
                    summary_stats, startdate, trunc_pos, error_args,
                    per_repo_lang_stats, commits, re_cloc_stats, commit_pos, extvars >>

\* One call of git_repo_stats.
NextGit ==
    \/ git_repo_stats
    \/ git_list_commit
    \/ git_commits_listed
    \/ git_commit_step
    \/ git_return

SpecGit == Init /\ [][NextGit]_vars

\* --------------------------------------------------------------- GitHubRepoInfo
\* Releases as the GitHub API lists them: 'name' as its words, 'tag_name' as
\* its characters, 'published_at' as its date (the first 10 characters) and
\* the rest of the time stamp.
Release1 == [name |-> << "1.0" >>, tag_name |-> << "v", "1" >>,
             published_at |-> [date |-> 1, time |-> 1]]

Release2 == [name |-> << "Latest", "release" >>, tag_name |-> << "2" >>,
             published_at |-> [date |-> 2, time |-> 0]]

\* The bodies of the responses of the releases end point: a list, newest
\* release first. A list is a record with its items, which tells the empty
\* list from None.
ReleaseLists ==
    { [items |-> l] : l \in { << >>, << Release1 >>, << Release2, Release1 >> } }

\* The responses of requests.get: ok with a list of releases, or not ok.
Responses ==
    { [ok |-> TRUE, json |-> l] : l \in ReleaseLists } \cup { [ok |-> FALSE, json |-> None] }

\* UsesCache with a defect: the stored list is never used (used to test that
\* C22 depends on UsesCache).
UsesCacheNever(use_cache, stored) == FALSE

\* Line 676: use_cache and self.__releases is not None
UsesCache(use_cache, stored) == use_cache /\ stored # None

\* StoredAfter with a defect: the stored list is replaced by every response
\* (used to test that C29 depends on StoredAfter).
StoredAfterOverwrite(stored, json) == json

\* Lines 686-687: self.__releases after a response that is ok.
StoredAfter(stored, json) == IF stored = None THEN json ELSE stored

\* Lines 676-689: the outcome of get_releases(use_cache) on an object that
\* stores stored, when requests.get answers response (if it is called).
GetReleases(use_cache, stored, response) ==
    IF UsesCache(use_cache, stored)
      THEN [requested |-> FALSE, raised |-> FALSE, stored |-> stored, result |-> stored]
      ELSE IF ~response.ok
        THEN [requested |-> TRUE, raised |-> TRUE, stored |-> stored, result |-> None]
        ELSE [requested |-> TRUE, raised |-> FALSE,
              stored |-> StoredAfter(stored, response.json),
              result |-> StoredAfter(stored, response.json)]

\* s.lstrip("v")
RECURSIVE Lstrip(_)
Lstrip(s) == IF s # << >> /\ s[1] = "v" THEN Lstrip(Tail(s)) ELSE s

\* The positions of the releases of rels whose name does not hold "Latest".
Named(rels) ==
    { i \in 1..Len(rels) : \A w \in 1..Len(rels[i].name) : rels[i].name[w] # "Latest" }

\* The elements of rels at the positions P, in order.
RECURSIVE Select(_, _)
Select(rels, P) ==
    IF rels = << >> THEN << >>
    ELSE Select(SubSeq(rels, 1, Len(rels) - 1), P)
         \o (IF Len(rels) \in P THEN << rels[Len(rels)] >> ELSE << >>)

\* Lines 700-707: the names and the dates of the releases rels.
NamesAndDates(releases_) ==
    LET rels == releases_.items
        kept == Select(rels, Named(rels))
    IN  [names |-> [i \in 1..Len(kept) |-> Lstrip(kept[i].tag_name)],
         dates |-> [i \in 1..Len(kept) |-> kept[i].published_at.date]]

\* The effect of a call that goes through get_releases on the object and on
\* the record of the call.
ReleasesCall(op, use_cache, response) ==
    LET out == GetReleases(use_cache, releases, response)
    IN  /\ Len(responses) < MaxRequests \/ ~out.requested
        /\ releases' = out.stored
        /\ responses' = IF out.requested THEN Append(responses, response) ELSE responses
        /\ last_call' = [op |-> op, use_cache |-> use_cache,
                         stored_before |-> releases,
                         requested |-> out.requested, raised |-> out.raised,
                         releases |-> out.result,
                         result |-> IF op = "get_releases" \/ out.raised
                                      THEN out.result
                                      ELSE NamesAndDates(out.result)]

\* get_releases(use_cache), lines 663-689.
get_releases ==
    /\ \E use_cache \in BOOLEAN, response \in Responses :
         ReleasesCall("get_releases", use_cache, response)
    /\ UNCHANGED << statvars, gitvars, pagevars, covvars, contribvars, cachevars >>

\* get_release_names_and_dates(**kwargs), lines 692-707; use_cache is True
\* unless kwargs sets it.
get_release_names_and_dates ==
    /\ \E use_cache \in BOOLEAN, response \in Responses :
         ReleasesCall("get_release_names_and_dates", use_cache, response)
    /\ UNCHANGED << statvars, gitvars, pagevars, covvars, contribvars, cachevars >>

NextReleases ==
    \/ get_releases
    \/ get_release_names_and_dates

SpecReleases == Init /\ [][NextReleases]_vars

\* ------------------------------------------------------------------ CodecovInfo
\* The items of page k of the codecov listing.
PageItems(k) == << [page |-> k, item |-> 1], [page |-> k, item |-> 2] >>

\* What a request for page k can be answered with: ok or not, and a body that
\* is JSON (with the list raw[key]) or is not.
PageResponses(k) ==
    { [ok |-> TRUE,  is_json |-> TRUE,  items |-> PageItems(k)],
      [ok |-> TRUE,  is_json |-> TRUE,  items |-> << >>],
      [ok |-> FALSE, is_json |-> TRUE,  items |-> << >>],
      [ok |-> FALSE, is_json |-> FALSE, items |-> << >>] }

\* Line 33: page_max = 100, whatever the caller gave.
PageMaxOfCall(given) == HardPageMax

\* Line 34: page_max is None or page_index < page_max
MorePages(max, index) == max = NoPageMax \/ index < max

\* get_pulls_or_commits, lines 27-33: the call; key is 'pulls' or 'commits'.
get_pulls_or_commits ==
    /\ page_pc = "idle"
    /\ \E given \in {NoPageMax} \cup (1..MaxPageMax) :
         /\ page_max_arg' = given
         /\ page_max' = PageMaxOfCall(given)
    /\ results' = << >>
    /\ page_index' = 1
    /\ page_log' = << >>
    /\ page_pc' = "while"
    /\ UNCHANGED << statvars, gitvars, relvars, covvars, contribvars, cachevars >>

\* Lines 34-43: one page. response.json() is evaluated before response.ok is
\* looked at and raises on a body that is not JSON.
pulls_or_commits_page ==
    /\ page_pc = "while"
    /\ MorePages(page_max, page_index)
    /\ \E response \in PageResponses(page_index) :
         /\ page_log' = Append(page_log, response)
         /\ IF ~response.is_json
              THEN /\ page_pc' = "raised"
                   /\ UNCHANGED << results, page_index >>
              ELSE IF response.ok /\ Len(response.items) > 0
                THEN /\ results' = results \o response.items
                     /\ page_index' = page_index + 1
                     /\ page_pc' = "while"
                ELSE /\ page_pc' = "break"
                     /\ UNCHANGED << results, page_index >>
    /\ UNCHANGED << statvars, gitvars, relvars, covvars, contribvars, cachevars, page_max_arg, page_max >>

\* Line 44: return results, after the break or when the loop condition fails.
pulls_or_commits_return ==
    /\ \/ page_pc = "break"
       \/ page_pc = "while" /\ ~MorePages(page_max, page_index)
    /\ page_pc' = "returned"
    /\ UNCHANGED << statvars, gitvars, relvars, covvars, contribvars, cachevars, page_max_arg, page_max,
                    page_index, results, page_log >>

NextPages ==
    \/ get_pulls_or_commits
    \/ pulls_or_commits_page
    \/ pulls_or_commits_return

SpecPages == Init /\ [][NextPages]_vars

\* The time stamps of codecov: the seconds, the microseconds that follow the
\* first 19 characters, and the separator of date and time.
TimeStamps ==
    { [seconds |-> 1, micro |-> 0, sep |-> "T"],
      [seconds |-> 1, micro |-> 5, sep |-> " "],
      [seconds |-> 2, micro |-> 0, sep |-> "T"] }

\* The values of totals['c'].
CoverageValues == { 0, 80 }

\* The dicts with 'totals' of a commit, or of the head or base of a pull.
WithTotals ==
    { [totals |-> [c |-> c], timestamp |-> ts] : c \in CoverageValues, ts \in TimeStamps }
    \cup { [totals |-> [c |-> c], updatestamp |-> ts] :
             c \in CoverageValues, ts \in TimeStamps }

\* The items of codecov, without their 'pullid': commits with their own
\* totals, pulls with the totals of their head or of their base, and items
\* without coverage.
ItemKinds ==
    { w \in WithTotals : "timestamp" \in DOMAIN w }
    \cup { [totals |-> None, head |-> w, base |-> None] :
             w \in { v \in WithTotals : "updatestamp" \in DOMAIN v } }
    \cup { [head |-> None, base |-> w] :
             w \in { v \in WithTotals : "timestamp" \in DOMAIN v /\ v.totals.c = 80 } }
    \cup { [totals |-> None, head |-> None, base |-> None], [head |-> [totals |-> None]] }

\* key in p and p[key] is not None
Has(p, key) == key \in DOMAIN p /\ p[key] # None

\* Lines 63-71, get_stamp_and_cov: the time stamp without its microseconds and
\* the coverage, None for a coverage of 0 that is filtered.
get_stamp_and_cov(indict, filter_zeros) ==
    LET cov == indict.totals.c
        ts  == IF "timestamp" \in DOMAIN indict THEN indict.timestamp
               ELSE indict.updatestamp
    IN  IF ~(cov = 0 /\ filter_zeros)
          THEN [stamp |-> ts.seconds, cov |-> cov]
          ELSE None

\* Lines 74-80: the time stamp and the coverage of item p, None when it has none.
StampAndCov(p, filter_zeros) ==
    IF Has(p, "totals") THEN get_stamp_and_cov(p, filter_zeros)
    ELSE IF Has(p, "head") /\ Has(p.head, "totals")
      THEN get_stamp_and_cov(p.head, filter_zeros)
    ELSE IF Has(p, "base") /\ Has(p.base, "totals")
      THEN get_stamp_and_cov(p.base, filter_zeros)
    ELSE None

\* Lines 73-85: the lists timestamps, coverage and no_coverage after the loop.
RECURSIVE Collected(_, _)
Collected(items, filter_zeros) ==
    IF items = << >>
      THEN [timestamps |-> << >>, coverage |-> << >>, no_coverage |-> << >>]
      ELSE LET before == Collected(SubSeq(items, 1, Len(items) - 1), filter_zeros)
               p == items[Len(items)]
               sc == StampAndCov(p, filter_zeros)
           IN  IF sc # None
                 THEN [before EXCEPT !.timestamps = Append(@, sc.stamp),
                                     !.coverage = Append(@, sc.cov)]
                 ELSE [before EXCEPT !.no_coverage = Append(@, p.pullid)]

\* Line 86: what np.argsort(timestamps) can return, the orders (as lists of
\* positions) that sort timestamps; equal time stamps may come in any order.
ArgSorts(timestamps) ==
    { o \in [1..Len(timestamps) -> 1..Len(timestamps)] :
        /\ \A i \in 1..Len(o), j \in 1..Len(o) : i # j => o[i] # o[j]
        /\ \A i \in 1..(Len(o) - 1) : timestamps[o[i]] <= timestamps[o[i + 1]] }

\* Line 87: np.array(timestamps)[sortorder]
Reordered(arr, sortorder) == [i \in 1..Len(sortorder) |-> arr[sortorder[i]]]

\* ReorderedCoverage with a defect: the coverage is left in the order of the
\* items (used to test that C25 depends on ReorderedCoverage).
CoverageNotReordered(coverage, sortorder) == coverage

\* Line 88: np.array(coverage)[sortorder]
ReorderedCoverage(coverage, sortorder) == Reordered(coverage, sortorder)

\* The caller puts one more item into the list it will give to
\* get_time_and_coverage; 'pullid' numbers the items.
add_pull_or_commit ==
    /\ coverage_result = None
    /\ Len(pulls_or_commits) < MaxItems
    /\ \E kind \in ItemKinds :
         pulls_or_commits' =
             Append(pulls_or_commits,
                    kind @@ [pullid |-> Len(pulls_or_commits) + 1])
    /\ UNCHANGED << statvars, gitvars, relvars, pagevars, contribvars, cachevars, coverage_result >>

\* get_time_and_coverage, lines 47-89.
get_time_and_coverage ==
    /\ coverage_result = None
    /\ \E filter_zeros \in BOOLEAN :
         LET lists == Collected(pulls_or_commits, filter_zeros)
         IN  \E sortorder \in ArgSorts(lists.timestamps) :
               coverage_result' =
                   [filter_zeros |-> filter_zeros,
                    timestamps |-> Reordered(lists.timestamps, sortorder),
                    coverage |-> ReorderedCoverage(lists.coverage, sortorder),
                    no_coverage |-> lists.no_coverage]
    /\ UNCHANGED << statvars, gitvars, relvars, pagevars, contribvars, cachevars, pulls_or_commits >>

NextCoverage ==
    \/ add_pull_or_commit
    \/ get_time_and_coverage

SpecCoverage == Init /\ [][NextCoverage]_vars

\* ---------------------------------------------------------- merge_contributors
\* The names and the e-mail addresses of the contributors, in lexicographic
\* order (the order pandas sorts the keys of an outer merge and of a groupby by).
NameOrder == << "Ann", "Bo" >>

EmailOrder == << "a@x", "b@x", "c@x" >>

\* The (name, email) keys in lexicographic order.
KeyOrder ==
    [k \in 1..(Len(NameOrder) * Len(EmailOrder)) |->
        [name  |-> NameOrder[((k - 1) \div Len(EmailOrder)) + 1],
         email |-> EmailOrder[((k - 1) % Len(EmailOrder)) + 1]]]

KeyRank(name, email) ==
    CHOOSE k \in 1..Len(KeyOrder) : KeyOrder[k] = [name |-> name, email |-> email]

\* df has a row for the name and the e-mail address
HasKey(df, name, email) ==
    \E i \in 1..Len(df) : df[i].name = name /\ df[i].email = email

\* The number of rows of all the frames together.
RowCount(frames) == SumOver([r \in Repos |-> Len(frames[r])], Repos)

\* get_contributors: `git shortlog --summary --numbered --email` has one line
\* per author (name and e-mail address), the authors with the most commits
\* first.
add_contributor ==
    /\ contributors = None
    /\ RowCount(data_frames) < MaxRows
    /\ \E r \in Repos, k \in 1..Len(KeyOrder), n \in 1..MaxCount :
         LET df   == data_frames[r]
             key  == KeyOrder[k]
             last == df[Len(df)]
         IN  /\ ~HasKey(df, key.name, key.email)
             /\ IF Len(df) = 0 THEN TRUE
                ELSE \/ n < last.commits
                     \/ n = last.commits /\ KeyRank(last.name, last.email) < k
             /\ data_frames' =
                  [data_frames EXCEPT
                     ![r] = Append(df, [name |-> key.name, email |-> key.email,
                                        commits |-> n])]
    /\ UNCHANGED << statvars, gitvars, relvars, pagevars, covvars, cachevars,
                    merge_duplicates, contributors >>

\* The commits column of df at the row of the key, after the outer merge and
\* fillna(0) (lines 598-603).
CommitsOf(df, name, email) ==
    IF HasKey(df, name, email)
      THEN df[CHOOSE i \in 1..Len(df) : df[i].name = name /\ df[i].email = email].commits
      ELSE 0

\* Lines 592-603: the outer merge of the frames on ['name', 'email'], one
\* commits column per repository.
Merged(frames) ==
    LET Present(key) == \E r \in Repos : HasKey(frames[r], key.name, key.email)
        keys == SelectSeq(KeyOrder, Present)
    IN  [i \in 1..Len(keys) |->
            [name    |-> keys[i].name,
             email   |-> keys[i].email,
             commits |-> [r \in Repos |->
                            CommitsOf(frames[r], keys[i].name, keys[i].email)]]]

RECURSIVE SeqSum(_)
SeqSum(s) == IF s = << >> THEN 0 ELSE s[1] + SeqSum(Tail(s))

SummedFirstRowOnly(rows) == rows[1].commits

\* grouped.sum() (lines 612 and 637): the commits columns of the rows of a group
Summed(rows) ==
    [r \in Repos |-> SeqSum([i \in 1..Len(rows) |-> rows[i].commits[r]])]

\* Lines 611-615: one row per e-mail address, in the order of the addresses;
\* 'name' is the tuple of the names of the rows of the address.
GroupedByEmail(result) ==
    LET Used(email) == \E i \in 1..Len(result) : result[i].email = email
        emails == SelectSeq(EmailOrder, Used)
    IN  [g \in 1..Len(emails) |->
            LET Of(row) == row.email = emails[g]
                rows == SelectSeq(result, Of)
            IN  [email   |-> emails[g],
                 name    |-> [i \in 1..Len(rows) |-> rows[i].name],
                 commits |-> Summed(rows)]]

\* np.any(np.array(names2) == n) for some n of names (lines 631-633)
SharesName(names, names2) ==
    \E i \in 1..Len(names), j \in 1..Len(names2) : names[i] = names2[j]

\* Lines 623-634: group_col, the first earlier row that shares a name with
\* the row, else the row itself (rows are counted from 1 here).
GroupCol(filtered) ==
    [index \in 1..Len(filtered) |->
        LET matches == { index2 \in 1..(index - 1) :
                           SharesName(filtered[index].name, filtered[index2].name) }
        IN  IF matches = {} THEN index ELSE Min(matches)]

\* Lines 635-644: one row per value of name_index, in ascending order; the
\* names and the e-mail addresses of a row are those of the rows of its group.
GroupedByNameIndex(filtered, group_col) ==
    LET Used(index) == \E i \in 1..Len(group_col) : group_col[i] = index
        indices == SelectSeq([i \in 1..Len(filtered) |-> i], Used)
    IN  [g \in 1..Len(indices) |->
            LET In(i) == group_col[i] = indices[g]
                members == SelectSeq([i \in 1..Len(filtered) |-> i], In)
                rows == [m \in 1..Len(members) |-> filtered[members[m]]]
            IN  [name    |-> UNION { { rows[m].name[i] : i \in 1..Len(rows[m].name) } :
                                     m \in 1..Len(rows) },
                 email   |-> { rows[m].email : m \in 1..Len(rows) },
                 commits |-> Summed(rows)]]

\* merge_contributors(data_frames, merge_duplicates): the rows of the frame it
\* returns.
MergeContributors(frames, duplicates) ==
    LET result == Merged(frames)
        filtered == GroupedByEmail(result)
    IN  IF duplicates
          THEN GroupedByNameIndex(filtered, GroupCol(filtered))
          ELSE result

merge_contributors ==
    /\ contributors = None
    /\ \E duplicates \in BOOLEAN :
         /\ merge_duplicates' = duplicates
         /\ contributors' = [rows |-> MergeContributors(data_frames, duplicates)]
    /\ UNCHANGED << statvars, gitvars, relvars, pagevars, covvars, cachevars,
                    data_frames >>

NextContributors ==
    \/ add_contributor
    \/ merge_contributors

SpecContributors == Init /\ [][NextContributors]_vars

\* ------------------------------------------------------ from_nwb and the cache
\* cache_file_cloc, cache_file_commits, cache_git_paths and cache_contributors
\* (lines 61-64), by their names in output_dir.
CacheFiles == { "cloc_stats.yaml", "commit_stats.yaml", "git_paths.yaml",
                "contributors.tsv" }

\* The name of source_dir in output_dir (line 60).
SourceDir == "src"

\* What cache_dir may hold when from_nwb is called: nothing at all (None, the
\* directory does not exist), or any of the cache files, source_dir and a
\* file that is none of them.
CacheDirs ==
    { None } \cup
    { [entries |-> S] : S \in SUBSET (CacheFiles \cup { SourceDir, "notes.txt" }) }

\* GitCodeStats.cached(output_dir)
Cached(dir) ==
    IF dir = None THEN FALSE ELSE CacheFiles \subseteq dir.entries

DirKeptByCleanOutdirs(dir) ==
    IF dir = None THEN [entries |-> { SourceDir }]
    ELSE [entries |-> dir.entries \cup { SourceDir }]

\* clean_outdirs: rmtree(output_dir) if it exists, mkdir(output_dir),
\* mkdir(source_dir)
DirAfterCleanOutdirs(dir) == [entries |-> { SourceDir }]

\* from_nwb, lines 114-117: the cache is loaded if it is complete and
\* read_cache is set; else the statistics are computed.
from_nwb ==
    /\ nwb_pc = "idle"
    /\ \E dir \in CacheDirs, read \in BOOLEAN, write \in BOOLEAN, clean \in BOOLEAN :
         /\ cache_files' = dir
         /\ cache_before' = dir
         /\ read_cache' = read
         /\ write_cache' = write
         /\ clean_source_dir' = clean
         /\ IF Cached(dir) /\ read
              THEN /\ nwb_log' = << "from_cache" >>
                   /\ nwb_pc' = "stats_ready"
              ELSE /\ nwb_log' = << >>
                   /\ nwb_pc' = "clean_outdirs"
    /\ UNCHANGED << statvars, gitvars, relvars, pagevars, covvars, contribvars >>

\* compute_code_stats, lines 238-239
clean_outdirs ==
    /\ nwb_pc = "clean_outdirs"
    /\ cache_files' = DirAfterCleanOutdirs(cache_files)
    /\ nwb_log' = nwb_log \o (IF cache_files = None THEN << >> ELSE << "rmtree" >>)
                          \o << "mkdir" >>
    /\ nwb_pc' = "clone_repos"
    /\ UNCHANGED << statvars, gitvars, relvars, pagevars, covvars, contribvars,
                    cache_before, read_cache, write_cache, clean_source_dir >>

\* compute_code_stats, line 242: the repositories are cloned into source_dir,
\* or git raises.
clone_repos ==
    /\ nwb_pc = "clone_repos"
    /\ nwb_log' = Append(nwb_log, "clone")
    /\ \E ok \in BOOLEAN : nwb_pc' = IF ok THEN "repo_stats" ELSE "raised"
    /\ UNCHANGED << statvars, gitvars, relvars, pagevars, covvars, contribvars,
                    cache_files, cache_before, read_cache, write_cache,
                    clean_source_dir >>

\* compute_code_stats, lines 252-273: the contributors and the statistics of
\* every repository are computed (git_repo_stats writes and removes the cloc
\* report of each commit), then source_dir is removed if clean_source_dir.
repo_stats ==
    /\ nwb_pc = "repo_stats"
    /\ nwb_log' = Append(nwb_log, "cloc")
    /\ cache_files' =
         IF clean_source_dir
           THEN [entries |-> cache_files.entries \ { SourceDir }]
           ELSE cache_files
    /\ nwb_pc' = "write_to_cache"
    /\ UNCHANGED << statvars, gitvars, relvars, pagevars, covvars, contribvars,
                    cache_before, read_cache, write_cache, clean_source_dir >>

\* from_nwb, lines 130-131, and write_to_cache
write_to_cache ==
    /\ nwb_pc = "write_to_cache"
    /\ IF write_cache
         THEN /\ cache_files' = [entries |-> cache_files.entries \cup CacheFiles]
              /\ nwb_log' = Append(nwb_log, "write_to_cache")
         ELSE UNCHANGED << cache_files, nwb_log >>
    /\ nwb_pc' = "stats_ready"
    /\ UNCHANGED << statvars, gitvars, relvars, pagevars, covvars, contribvars,
                    cache_before, read_cache, write_cache, clean_source_dir >>

\* from_nwb, lines 134-163: the tables are computed from the statistics, which
\* touches no file; it returns them, or compute_summary_stats raises.
from_nwb_return ==
    /\ nwb_pc = "stats_ready"
    /\ \E ok \in BOOLEAN : nwb_pc' = IF ok THEN "returned" ELSE "raised"
    /\ UNCHANGED << statvars, gitvars, relvars, pagevars, covvars, contribvars,
                    cache_files, cache_before, read_cache, write_cache,
                    clean_source_dir, nwb_log >>

NextFromNwb ==
    \/ from_nwb
    \/ clean_outdirs
    \/ clone_repos
    \/ repo_stats
    \/ write_to_cache
    \/ from_nwb_return

SpecFromNwb == Init /\ [][NextFromNwb]_vars

\* ------------------------------------------------------------------ claims
\* compute_summary_stats has returned and from_nwb has not yet touched the tables.
Returned == pc = "returned" /\ trunc_pos = 0

\* The categories whose table is built from the category's own column.
OwnCategories == Categories \ {"nfiles"}

\* The metric of category cat that snapshot s carries.
MetricOf(s, cat) ==
    CASE cat = "sizes"    -> s.cloc.SUM.blank + s.cloc.SUM.code + s.cloc.SUM.comment
      [] cat = "blanks"   -> s.cloc.SUM.blank
      [] cat = "codes"    -> s.cloc.SUM.code
      [] cat = "comments" -> s.cloc.SUM.comment
      [] cat = "nfiles"   -> s.cloc.SUM.nFiles

\* The snapshots of repository r dated at or before day d.
Past(r, d) == { s \in { cloc_stats[r][i] : i \in 1..Len(cloc_stats[r]) } : s.date <= d }

\* The latest of a non-empty set of snapshots.
Latest(S) == CHOOSE s \in S : \A t \in S : t.date <= s.date

\* Last observation carried forward: the metric of the latest snapshot of r
\* dated at or before d, and 0 when there is none.
Locf(r, d, cat) ==
    IF Past(r, d) = {} THEN 0 ELSE MetricOf(Latest(Past(r, d)), cat)

\* The dates of the snapshots of repository r.
SnapshotDates(r) == { cloc_stats[r][i].date : i \in 1..Len(cloc_stats[r]) }

Positions == 1..Len(date_range)

\* C1: over a date_range of consecutive days, the value returned at each date,
\* for each repository and category, is the metric of the latest snapshot
\* dated at or before that date, and 0 when there is none. (Stated for the
\* categories other than 'nfiles', whose table is the matter of C7.)
C1_LastObservationCarriedForward ==
    (Returned /\ Daily(date_range)) =>
        \A r \in Repos, cat \in OwnCategories, i \in Positions :
            summary_stats[cat][r][i] = Locf(r, date_range[i], cat)

\* C2: at a date of date_range that is the date of a snapshot of a
\* repository, the value returned for the repository is that snapshot's
\* metric (stated for daily ranges and the categories other than 'nfiles').
C2_ExactMatch ==
    (Returned /\ Daily(date_range)) =>
        \A r \in Repos, cat \in OwnCategories, i \in Positions :
            \A s \in Past(r, date_range[i]) :
                s.date = date_range[i] => summary_stats[cat][r][i] = MetricOf(s, cat)

\* The greatest (0-based) index of curr_dates whose date is at or before d0.
GreatestAtOrBefore(curr_dates, d0) ==
    CHOOSE i \in 0..(Len(curr_dates) - 1) :
        /\ curr_dates[i + 1] <= d0
        /\ \A j \in 0..(Len(curr_dates) - 1) : curr_dates[j + 1] <= d0 => j <= i

\* The search for the start values of a repository has just finished.
StartSearched == pc = "for_date" /\ loop_pos = 0

\* C3: when date_range[0] is later than the first snapshot date, the cursor is
\* on, and the carried values are those of, the snapshot with the greatest
\* index whose date is at or before date_range[0].
C3_PreHistoryCursor ==
    (StartSearched /\ date_range[1] > curr.dates[1]) =>
        /\ curr_index = GreatestAtOrBefore(curr.dates, date_range[1])
        /\ curr_val = ValuesAt(curr, GreatestAtOrBefore(curr.dates, date_range[1]))

\* C4: at every date of date_range after the last snapshot date of a
\* repository, the value returned is the metric of the last snapshot (stated
\* for daily ranges and the categories other than 'nfiles').
C4_TerminalHold ==
    (Returned /\ Daily(date_range)) =>
        \A r \in Repos, cat \in OwnCategories, i \in Positions :
            (\A d \in SnapshotDates(r) : d < date_range[i]) =>
                summary_stats[cat][r][i] = MetricOf(cloc_stats[r][1], cat)

\* C5: a repository without snapshots raises no exception; its column is all
\* zeros, of the length of date_range, in every table.
C5_EmptyHistory ==
    /\ (pc = "raised" /\ cloc_stats # None) => \A r \in Repos : cloc_stats[r] # << >>
    /\ Returned =>
         \A r \in Repos, cat \in Categories :
             cloc_stats[r] = << >> =>
                 summary_stats[cat][r] = [i \in Positions |-> 0]

\* The clean-up of from_nwb has handled repository r, which has a start date.
CleanedUp(r) == r \in DOMAIN startdate /\ startdate[r] # NoDate

\* C6: after the clean-up of from_nwb for a repository with start date c, its
\* column is 0 at every date before c and unchanged at every date from c on,
\* in every table.
C6_StartDateTruncation ==
    \A r \in Repos :
        CleanedUp(r) =>
            \A cat \in Categories, i \in Positions :
                summary_stats[cat][r][i] =
                    IF date_range[i] < startdate[r]
                      THEN 0
                      ELSE SummaryTables(aligned)[cat][r][i]

\* C7: the 'nfiles' table returned holds the carried-forward file counts.
C7_NFilesTable ==
    Returned => summary_stats.nfiles = aligned.nfiles

\* C8: a date of date_range that precedes every snapshot date of a repository
\* has value 0 in every category.
C8_PreHistoryZero ==
    Returned =>
        \A r \in Repos, cat \in Categories, i \in Positions :
            (\A d \in SnapshotDates(r) : date_range[i] < d) =>
                summary_stats[cat][r][i] = 0

\* A returned column that is 0 before the first snapshot and not 0 later.
C8_Witness ==
    /\ Returned
    /\ \E r \in Repos, i \in Positions, j \in Positions :
          /\ i < j
          /\ \A d \in SnapshotDates(r) : date_range[i] < d
          /\ summary_stats.codes[r][i] = 0
          /\ summary_stats.codes[r][j] # 0

\* C9: for any ascending date_range starting at or before the first snapshot,
\* whatever its step, the value returned is the last observation carried
\* forward: a snapshot dated between two dates of date_range counts from the
\* next date on (stated for the categories other than 'nfiles').
C9_StepSizeIndependence ==
    Returned =>
        \A r \in Repos, cat \in OwnCategories, i \in Positions :
            (\A d \in SnapshotDates(r) : date_range[1] <= d) =>
                summary_stats[cat][r][i] = Locf(r, date_range[i], cat)

\* C10: for adjacent dates d1 < d2 of date_range with no snapshot of the
\* repository dated in (d1, d2], the value at d2 is the value at d1, in every
\* category.
C10_CarryForward ==
    Returned =>
        \A r \in Repos, cat \in Categories, i \in Positions :
            (/\ i + 1 \in Positions
             /\ \A d \in SnapshotDates(r) : ~(date_range[i] < d /\ d <= date_range[i + 1]))
            => summary_stats[cat][r][i + 1] = summary_stats[cat][r][i]

\* A snapshot's value is carried over a date without snapshot, after the
\* value changed at a snapshot date.
C10_Witness ==
    /\ Returned
    /\ \E r \in Repos, i \in Positions, j \in Positions :
          /\ j + 1 \in Positions
          /\ i < j
          /\ summary_stats.codes[r][i] # summary_stats.codes[r][j]
          /\ summary_stats.codes[r][j] # 0
          /\ \A d \in SnapshotDates(r) : ~(date_range[j] < d /\ d <= date_range[j + 1])
          /\ summary_stats.codes[r][j + 1] = summary_stats.codes[r][j]

\* C11: at every date and for every repository, the values of the five
\* categories are those of one and the same snapshot, or are all 0, and the
\* size is the sum of the blank, code and comment values.
C11_SharedCursor ==
    Returned =>
        \A r \in Repos, i \in Positions :
            /\ \/ \A cat \in Categories : summary_stats[cat][r][i] = 0
               \/ \E n \in 1..Len(cloc_stats[r]) :
                     \A cat \in Categories :
                         summary_stats[cat][r][i] = MetricOf(cloc_stats[r][n], cat)
            /\ summary_stats.sizes[r][i] =
                   summary_stats.blanks[r][i] + summary_stats.codes[r][i]
                   + summary_stats.comments[r][i]

LangLines(s, lang) ==
    IF lang \in DOMAIN s.cloc
      THEN s.cloc[lang].blank + s.cloc[lang].code + s.cloc[lang].comment
      ELSE 0

\* The languages and the rows of the language table of repository r.
Languages(r) == DOMAIN per_repo_lang_stats[r].data

Rows(r) == 1..Len(per_repo_lang_stats[r].index)

\* C15: after the clean-up of from_nwb for a repository with start date c,
\* every row of its language table dated before c is 0 in all columns and
\* every row dated c or later is as compute_language_stats returned it.
C15_LanguageTruncation ==
    \A r \in Repos :
        CleanedUp(r) =>
            /\ Rows(r) = 1..Len(cloc_stats[r])
            /\ \A i \in Rows(r), lang \in Languages(r) :
                  /\ per_repo_lang_stats[r].index[i] = cloc_stats[r][i].date
                  /\ per_repo_lang_stats[r].data[lang][i] =
                        IF per_repo_lang_stats[r].index[i] < startdate[r]
                          THEN 0
                          ELSE LangLines(cloc_stats[r][i], lang)

\* A cleaned-up language table with a row before the start date and a row
\* dated on the start date, which keeps its count.
C15_Witness ==
    \E r \in Repos :
        /\ CleanedUp(r)
        /\ \E i \in Rows(r), j \in Rows(r), lang \in Languages(r) :
              /\ per_repo_lang_stats[r].index[i] < startdate[r]
              /\ LangLines(cloc_stats[r][i], lang) # 0
              /\ per_repo_lang_stats[r].data[lang][i] = 0
              /\ per_repo_lang_stats[r].index[j] = startdate[r]
              /\ per_repo_lang_stats[r].data[lang][j] # 0

\* C16: applying the clean-up of from_nwb once more, to the tables it has
\* cleaned up and with the same start date, changes no cell.
C16_TruncationIdempotent ==
    \A r \in Repos :
        CleanedUp(r) =>
            /\ \A k \in DOMAIN summary_stats :
                  ZeroUpTo(summary_stats[k][r], date_range, startdate[r])
                      = summary_stats[k][r]
            /\ ZeroRows(per_repo_lang_stats[r],
                        DateMask(per_repo_lang_stats[r].index, startdate[r]))
                   = per_repo_lang_stats[r]

\* A clean-up that set cells of both tables to 0 and left others not 0.
C16_Witness ==
    \E r \in Repos :
        /\ CleanedUp(r)
        /\ \E i \in Positions, j \in Positions :
              /\ aligned.codes[r][i] # 0
              /\ summary_stats.codes[r][i] = 0
              /\ summary_stats.codes[r][j] # 0
        /\ \E i \in Rows(r), lang \in Languages(r) :
              /\ LangLines(cloc_stats[r][i], lang) # 0
              /\ per_repo_lang_stats[r].data[lang][i] = 0

\* compute_language_stats has returned and from_nwb has not yet touched the tables.
LanguagesReturned == per_repo_lang_stats # None /\ trunc_pos = 0

\* C17 as stated: the row index of each repository's language table is in
\* ascending order.
C17_AscendingIndex ==
    LanguagesReturned =>
        \A r \in Repos : \A i \in Rows(r), j \in Rows(r) :
            i < j => per_repo_lang_stats[r].index[i] < per_repo_lang_stats[r].index[j]

\* C17 as amended: the row index of each repository's language table is its
\* snapshot dates in the order of cloc_stats, newest first, and the values of
\* a row are those of the snapshot with the row's date.
C17_IndexInSnapshotOrder ==
    LanguagesReturned =>
        \A r \in Repos :
            /\ Rows(r) = 1..Len(cloc_stats[r])
            /\ \A i \in Rows(r) :
                  /\ per_repo_lang_stats[r].index[i] = cloc_stats[r][i].date
                  /\ \A j \in Rows(r) :
                        i < j => per_repo_lang_stats[r].index[i]
                                     > per_repo_lang_stats[r].index[j]
                  /\ \A s \in { cloc_stats[r][n] : n \in 1..Len(cloc_stats[r]) } :
                        s.date = per_repo_lang_stats[r].index[i] =>
                            \A lang \in DOMAIN s.cloc \ IgnoreLang :
                                per_repo_lang_stats[r].data[lang][i] = LangLines(s, lang)

\* A language table of two rows whose counts differ.
C17_Witness ==
    /\ LanguagesReturned
    /\ \E r \in Repos : \E lang \in Languages(r) :
          /\ Len(per_repo_lang_stats[r].index) >= 2
          /\ per_repo_lang_stats[r].data[lang][1] # per_repo_lang_stats[r].data[lang][2]

\* Language lang is in snapshot n of repository r and in none of the newer
\* snapshots, which cloc_stats holds before it.
Vanished(r, lang, n) ==
    /\ lang \in DOMAIN cloc_stats[r][n].cloc
    /\ n > 1
    /\ \A m \in 1..(n - 1) : lang \notin DOMAIN cloc_stats[r][m].cloc

\* C18 as stated: the cell of a vanished language at every later snapshot
\* date is its last recorded count.
C18_VanishedCarriedForward ==
    LanguagesReturned =>
        \A r \in Repos : \A lang \in Languages(r), n \in Rows(r) :
            Vanished(r, lang, n) =>
                \A m \in 1..(n - 1) :
                    per_repo_lang_stats[r].data[lang][m] = LangLines(cloc_stats[r][n], lang)

\* C18 as amended: the cell of a language at the date of a snapshot that does
\* not hold the language is 0.
C18_AbsentLanguageIsZero ==
    LanguagesReturned =>
        \A r \in Repos : \A lang \in Languages(r), m \in Rows(r) :
            lang \notin DOMAIN cloc_stats[r][m].cloc =>
                per_repo_lang_stats[r].data[lang][m] = 0

\* A language that vanished: counted in an older snapshot, 0 at the newer one.
C18_Witness ==
    /\ LanguagesReturned
    /\ \E r \in Repos : \E lang \in Languages(r), n \in Rows(r) :
          /\ Vanished(r, lang, n)
          /\ per_repo_lang_stats[r].data[lang][n] # 0
          /\ per_repo_lang_stats[r].data[lang][1] = 0

\* compute_summary_stats has been called.
SummaryCalled == date_range # << >>

\* C13 as stated: the not-initialised error is raised only on an object whose
\* cloc_stats has not been set.
C13_OnlyWithoutClocStats ==
    error = "AssertionError" => cloc_stats = None

\* C13 as amended: compute_summary_stats raises the not-initialised error,
\* before it aligns anything, exactly when commit_stats is None or cloc_stats
\* is None.
C13_NotInitialized ==
    /\ error = "AssertionError" =>
          /\ commit_stats = None \/ cloc_stats = None
          /\ pc = "raised"
          /\ summary_stats = None
          /\ aligned = NoDicts
          /\ error_args = NotInitializedMessage
    /\ (SummaryCalled /\ (commit_stats = None \/ cloc_stats = None)) =>
          error = "AssertionError"

\* The error was raised on an object that has cloc_stats and no commit_stats.
C13_Witness ==
    /\ error = "AssertionError"
    /\ cloc_stats # None
    /\ \E r \in Repos : cloc_stats[r] # << >>
    /\ commit_stats = None

\* The key whose access fails first on snapshot list v, "" when none fails:
\* 'SUM' of any snapshot, then 'blank', 'code', 'comment' and 'nFiles' of the
\* 'SUM' of any snapshot.
FirstMissing(v) ==
    LET Lacks(key) == \E i \in 1..Len(v) : key \notin DOMAIN v[i].cloc.SUM
    IN  IF \E i \in 1..Len(v) : "SUM" \notin DOMAIN v[i].cloc THEN "SUM"
        ELSE IF Lacks("blank") THEN "blank"
        ELSE IF Lacks("code") THEN "code"
        ELSE IF Lacks("comment") THEN "comment"
        ELSE IF Lacks("nFiles") THEN "nFiles"
        ELSE ""

\* The elements of sequence s.
Elements(s) == { s[i] : i \in 1..Len(s) }

\* C14 as stated: on a malformed snapshot compute_summary_stats raises at the
\* first failing access, returns no table, and the error identifies the
\* repository and the category that failed.
C14_ErrorIdentifiesRepository ==
    /\ pc = "returned" => \A r \in Repos : FirstMissing(cloc_stats[r]) = ""
    /\ error = "KeyError" =>
          /\ summary_stats = None
          /\ FirstMissing(cloc_stats[RepoOrder[repo_pos + 1]]) \in Elements(error_args)
          /\ RepoOrder[repo_pos + 1] \in Elements(error_args)

\* C14 as amended: compute_summary_stats returns no table when a snapshot is
\* malformed; the KeyError it raises comes from the first repository with a
\* malformed snapshot, at the first failing access, and carries the missing
\* key and nothing else.
C14_MalformedSnapshot ==
    /\ pc = "returned" => \A r \in Repos : FirstMissing(cloc_stats[r]) = ""
    /\ pc \in {"for_date", "returned"} =>
          \A n \in 1..Len(RepoOrder) :
              n <= repo_pos + 1 => FirstMissing(cloc_stats[RepoOrder[n]]) = ""
    /\ error = "KeyError" =>
          /\ pc = "raised"
          /\ summary_stats = None
          /\ \A n \in 1..repo_pos : FirstMissing(cloc_stats[RepoOrder[n]]) = ""
          /\ FirstMissing(cloc_stats[RepoOrder[repo_pos + 1]]) # ""
          /\ error_args = << FirstMissing(cloc_stats[RepoOrder[repo_pos + 1]]) >>

\* The KeyError of a 'SUM' that lacks two keys, raised at the second
\* repository after the first one was aligned.
C14_Witness ==
    /\ error = "KeyError"
    /\ repo_pos = 1
    /\ DOMAIN aligned.sizes = { RepoOrder[1] }
    /\ error_args = << "blank" >>
    /\ \E i \in 1..Len(cloc_stats[RepoOrder[2]]) :
          "nFiles" \notin DOMAIN cloc_stats[RepoOrder[2]][i].cloc.SUM

\* git_repo_stats has returned.
GitReturned == git_pc = "returned"

\* The days that have a commit / a commit for which run_cloc returned a report.
CommitDays == { DateOf(commits[i].committed_date) : i \in 1..Len(commits) }

CountedDays ==
    { DateOf(commits[i].committed_date) :
        i \in { j \in 1..Len(commits) : commits[j].cloc # None } }

\* The newest commit of day d among the commits at the positions P.
NewestOf(d, P) ==
    commits[Min({ i \in P : DateOf(commits[i].committed_date) = d })]

\* The entries of re_cloc_stats dated d.
EntriesOf(d) == { n \in 1..Len(re_cloc_stats) : re_cloc_stats[n].date = d }

\* The dates of re_cloc_stats are strictly ordered newest first.
StrictlyNewestFirst ==
    \A n \in 1..Len(re_cloc_stats), k \in 1..Len(re_cloc_stats) :
        n < k => re_cloc_stats[n].date > re_cloc_stats[k].date

RECURSIVE Carry(_, _, _, _, _)
Carry(c, dr, i, index, val) ==
    IF i > Len(dr) THEN << >>
    ELSE LET hit  == dr[i] = c.dates[index + 1]
             val2 == IF hit THEN ValuesAt(c, index) ELSE val
             idx2 == IF hit /\ index < Len(c.dates) - 1 THEN index + 1 ELSE index
         IN  << val2 >> \o Carry(c, dr, i + 1, idx2, val2)

\* The column of a repository as its own snapshot list v and dr determine it.
OwnColumn(v, dr) ==
    LET c == CurrLists(v)
    IN  IF dr[1] > c.dates[1]
          THEN Carry(c, dr, 1, StartIndex(c.dates, dr[1]),
                     ValuesAt(c, StartIndex(c.dates, dr[1])))
          ELSE Carry(c, dr, 1, 0, Zeros)

\* The list of the aligned lists a table is built from.
TableSource(cat) == IF cat = "nfiles" THEN "codes" ELSE cat

\* C20: the column compute_summary_stats produces for a repository with
\* snapshots is determined by the repository's own snapshot list and
\* date_range, whatever the snapshots of the other repositories are.
C20_ColumnsIndependent ==
    \A r \in Repos :
        ( /\ cloc_stats # None
          /\ commit_stats # None
          /\ pc \in {"returned", "raised"}
          /\ trunc_pos = 0
          /\ cloc_stats[r] # << >> ) =>
            /\ pc = "returned"
            /\ \A cat \in Categories, i \in Positions :
                  summary_stats[cat][r][i] =
                      OwnColumn(cloc_stats[r], date_range)[i][TableSource(cat)]

\* Whenever compute_summary_stats returns, every column is the one the
\* repository's own snapshot list and date_range determine.
ReturnedColumnsAreOwn ==
    Returned =>
        \A r \in Repos, cat \in Categories, i \in Positions :
            summary_stats[cat][r][i] =
                OwnColumn(cloc_stats[r], date_range)[i][TableSource(cat)]

\* C27: the clean-up of from_nwb sets a date of a repository's column to 0 in
\* the summary tables if and only if it sets the row of that date to 0 in the
\* repository's language table.
C27_SameCutoffBoundary ==
    \A r \in Repos :
        CleanedUp(r) =>
            \A i \in Positions, j \in Rows(r) :
                ( /\ date_range[i] = per_repo_lang_stats[r].index[j]
                  /\ \A cat \in Categories : SummaryTables(aligned)[cat][r][i] # 0 ) =>
                    ( (\A cat \in Categories : summary_stats[cat][r][i] = 0)
                      <=> (\A lang \in Languages(r) :
                              per_repo_lang_stats[r].data[lang][j] = 0) )

\* The tables of repository r are as compute_summary_stats and
\* compute_language_stats returned them.
AsComputed(r) ==
    /\ \A cat \in Categories : summary_stats[cat][r] = SummaryTables(aligned)[cat][r]
    /\ Rows(r) = 1..Len(cloc_stats[r])
    /\ \A i \in Rows(r) :
          /\ per_repo_lang_stats[r].index[i] = cloc_stats[r][i].date
          /\ \A lang \in Languages(r) :
                per_repo_lang_stats[r].data[lang][i] = LangLines(cloc_stats[r][i], lang)

\* C28: during the clean-up of from_nwb the tables of every repository that
\* was not given a start date (so far) are as computed, whatever was done to
\* the other repositories, and no step of the clean-up changes cloc_stats.
C28_TruncationFrame ==
    /\ [](\A r \in Repos :
             (pc = "returned" /\ per_repo_lang_stats # None /\ ~CleanedUp(r)) =>
                 AsComputed(r))
    /\ [][pc = "returned" => cloc_stats' = cloc_stats]_vars

\* The clean-up is over: it set cells of the first repository to 0, the second
\* has no start date and has values that are not 0.
C28_Witness ==
    /\ trunc_pos = Len(RepoOrder)
    /\ CleanedUp(RepoOrder[1])
    /\ startdate[RepoOrder[2]] = NoDate
    /\ summary_stats.codes[RepoOrder[1]] # aligned.codes[RepoOrder[1]]
    /\ \E i \in Positions :
          /\ date_range[i] <= startdate[RepoOrder[1]]
          /\ summary_stats.codes[RepoOrder[2]][i] # 0

FirstObtained ==
    responses[Min({ i \in 1..Len(responses) : responses[i].ok })].json

\* C22: a call with use_cache=True on an object whose list of releases is
\* stored sends no request and returns the list the first successful call
\* obtained, whatever calls came before.
C22_FetchOnceReuse ==
    (last_call # None /\ last_call.use_cache /\ last_call.stored_before # None) =>
        /\ ~last_call.requested
        /\ ~last_call.raised
        /\ last_call.releases = FirstObtained
        /\ last_call.op = "get_releases" => last_call.result = FirstObtained

\* get_releases(use_cache=True) reused the list after calls of both kinds and
\* after a later request that was answered with another list.
C22_Witness ==
    /\ last_call # None
    /\ last_call.op = "get_releases"
    /\ last_call.use_cache
    /\ last_call.stored_before # None
    /\ Len(responses) >= 2
    /\ \E i \in 1..Len(responses) : responses[i].ok /\ responses[i].json # FirstObtained
    /\ last_call.result = FirstObtained

PagesReturned == page_pc = "returned"

\* The items of the pages of the log that were ok and not empty, in page order.
RECURSIVE ItemsOf(_)
ItemsOf(log) ==
    IF log = << >> THEN << >>
    ELSE ItemsOf(SubSeq(log, 1, Len(log) - 1))
         \o (IF log[Len(log)].ok THEN log[Len(log)].items ELSE << >>)

\* The response stops the paging: it is not ok or its page is empty.
Stops(response) == ~response.ok \/ response.items = << >>

\* C24: get_pulls_or_commits requests at most the caller's page_max pages, no
\* page after the first one that is empty or not ok, with page_max = None all
\* pages up to such a page, and returns the items of the pages in page order.
C24_PagingBound ==
    PagesReturned =>
        /\ page_max_arg # NoPageMax => Len(page_log) <= page_max_arg
        /\ \A i \in 1..(Len(page_log) - 1) : ~Stops(page_log[i])
        /\ page_max_arg = NoPageMax =>
              (page_log # << >> /\ Stops(page_log[Len(page_log)]))
        /\ results = ItemsOf(page_log)

\* get_time_and_coverage has returned.
CoverageReturned == coverage_result # None

\* The dict that holds the totals of item p: p, its head or its base; None
\* when there is none.
TotalsOf(p) ==
    IF Has(p, "totals") THEN p
    ELSE IF Has(p, "head") /\ Has(p.head, "totals") THEN p.head
    ELSE IF Has(p, "base") /\ Has(p.base, "totals") THEN p.base
    ELSE None

\* The time stamp (to the second) and the coverage of an item that has totals.
ItemStamp(p) ==
    IF "timestamp" \in DOMAIN TotalsOf(p) THEN TotalsOf(p).timestamp.seconds
    ELSE TotalsOf(p).updatestamp.seconds

ItemCoverage(p) == TotalsOf(p).totals.c

\* C25: the time stamps returned ascend, the coverage has their length and
\* coverage[i] is the coverage of an item whose time stamp is timestamps[i];
\* every item is one of these pairs or one entry of no_coverage, not both, and
\* with filter_zeros no coverage returned is 0.
C25_SortedAndPaired ==
    CoverageReturned =>
        LET res == coverage_result
            n == Len(res.timestamps)
            items == pulls_or_commits
        IN  /\ \A i \in 1..n, j \in 1..n : i < j => res.timestamps[i] <= res.timestamps[j]
            /\ Len(res.coverage) = n
            /\ n + Len(res.no_coverage) = Len(items)
            /\ \E f \in [1..n -> 1..Len(items)] :
                  /\ \A i \in 1..n, j \in 1..n : i # j => f[i] # f[j]
                  /\ \A i \in 1..n :
                        /\ TotalsOf(items[f[i]]) # None
                        /\ ItemStamp(items[f[i]]) = res.timestamps[i]
                        /\ ItemCoverage(items[f[i]]) = res.coverage[i]
                  /\ { res.no_coverage[k] : k \in 1..Len(res.no_coverage) }
                        = { items[m].pullid :
                              m \in (1..Len(items)) \ { f[i] : i \in 1..n } }
            /\ res.filter_zeros => \A i \in 1..n : res.coverage[i] # 0

\* Items given newest first and with different coverage were sorted, a
\* coverage of 0 was filtered and an item had no coverage.
C25_Witness ==
    /\ CoverageReturned
    /\ coverage_result.filter_zeros
    /\ Len(coverage_result.no_coverage) >= 1
    /\ Len(coverage_result.timestamps) = 2
    /\ coverage_result.timestamps[1] < coverage_result.timestamps[2]
    /\ \E m \in 1..Len(pulls_or_commits) :
          TotalsOf(pulls_or_commits[m]) # None /\ ItemCoverage(pulls_or_commits[m]) = 0
    /\ \E i \in 1..Len(pulls_or_commits), j \in 1..Len(pulls_or_commits) :
          /\ i < j
          /\ TotalsOf(pulls_or_commits[i]) # None
          /\ TotalsOf(pulls_or_commits[j]) # None
          /\ ItemStamp(pulls_or_commits[i]) > ItemStamp(pulls_or_commits[j])
          /\ ItemCoverage(pulls_or_commits[i]) # 0
          /\ ItemCoverage(pulls_or_commits[j]) # 0

\* merge_contributors has returned
ContributorsReturned == contributors # None

\* The commit counts of repository r in the frame given to merge_contributors.
InputCommits(r) == SeqSum([i \in 1..Len(data_frames[r]) |-> data_frames[r][i].commits])

\* The commit counts of the column of repository r of the frame returned.
ReturnedCommits(r) ==
    SeqSum([i \in 1..Len(contributors.rows) |-> contributors.rows[i].commits[r]])

\* C23: in the table merge_contributors returns with merge_duplicates=True no
\* e-mail address appears in two different rows and no name appears in two
\* different rows.
C23_NoSharedEmailOrName ==
    (ContributorsReturned /\ merge_duplicates) =>
        \A i, j \in 1..Len(contributors.rows) :
            i # j => /\ contributors.rows[i].email \cap contributors.rows[j].email = {}
                     /\ contributors.rows[i].name \cap contributors.rows[j].name = {}

\* C30: for every repository column, the commit counts of the rows of the
\* table merge_contributors returns, with or without merge_duplicates, add up
\* to the commit counts of the repository's input contributor list.
C30_CommitsConserved ==
    ContributorsReturned => \A r \in Repos : ReturnedCommits(r) = InputCommits(r)

\* merge_contributors has merged the rows of two e-mail addresses into one,
\* which holds the commits of both.
C30_Witness ==
    /\ ContributorsReturned
    /\ merge_duplicates
    /\ \E i \in 1..Len(contributors.rows), r \in Repos :
         /\ Cardinality(contributors.rows[i].email) > 1
         /\ contributors.rows[i].commits[r] > MaxCount

\* from_nwb found a complete cache and was to read it
CacheHit == Cached(cache_before) /\ read_cache

\* C26: if a complete cache exists and read_cache is True, from_nwb loads it
\* and neither deletes the cache directory, clones, runs cloc nor writes the
\* cache. Otherwise the whole cache directory is deleted first, and after
\* from_nwb returns a complete cache exists if and only if write_cache is True.
C26_CachePresence ==
    /\ (nwb_pc # "idle" /\ CacheHit) =>
          /\ cache_files = cache_before
          /\ nwb_log = << "from_cache" >>
    /\ (nwb_pc \notin { "idle", "clean_outdirs" } /\ ~CacheHit) =>
          /\ nwb_log[1] = (IF cache_before = None THEN "mkdir" ELSE "rmtree")
          /\ "notes.txt" \notin cache_files.entries
    /\ (nwb_pc = "returned" /\ ~CacheHit) =>
          /\ Cached(cache_files) <=> write_cache
          /\ ~write_cache => cache_files.entries \cap CacheFiles = {}

\* from_nwb has returned, called with read_cache=False and write_cache=False
\* on a complete cache, which is gone.
C26_Witness ==
    /\ nwb_pc = "returned"
    /\ Cached(cache_before)
    /\ ~read_cache
    /\ ~write_cache
    /\ ~Cached(cache_files)

====
